---- MODULE Spec2Model ----
(***************************************************************************)
(* A model of the mutable Merkle trie of src/src/triedbmut.rs: TrieDBMut   *)
(* over a hash-addressed store (HashDB), with its node cache, the          *)
(* recursive insert_aux / insert_raw_aux / remove_aux walks and the public *)
(* insert / remove / insert_raw / get / from_existing operations.          *)
(*                                                                         *)
(* Representation.  Option<T> is a sequence of length 0 (None) or 1        *)
(* (Some).  A nibble path is a sequence of nibbles 0..15.  The serialized  *)
(* form of a node is a list: 2 items for a leaf, 17 items for a branch.    *)
(* A digest is the record [hash |-> bytes]: the hash is collision free, so *)
(* a digest is identified with the bytes it was computed from.             *)
(***************************************************************************)
EXTENDS Integers, Sequences, FiniteSets, TLC

VARIABLES db,       \* HashDB: digest -> bytes
          root,     \* the caller's root slot (H256)
          cache,    \* the handle's node cache: digest -> bytes
          handle,   \* TRUE while a TrieDBMut borrows db and root
          content,  \* history: key -> Option<value>, the pairs inserted and not removed
          last,     \* history: the last call made and what it returned
          used,     \* history: the kinds of step taken so far
          evicted,  \* history: the digests the store's owner has dropped
          nops,     \* history: number of calls made on the handle so far
          asked     \* history: the digests the last call passed to HashDB::contains

vars == <<db, root, cache, handle, content, last, used, evicted, nops, asked>>

(***************************** bounds **************************************)
\* calls made on a handle that new() gave
MaxOps == 4
\* calls made on a handle that from_existing() gave
MaxExistingOps == 1
\* entries the store's owner drops before from_existing()
MaxEvict == 1
\* calls made on a handle that new() gave, insert_raw among them
MaxRawOps == 3

(***************************** Option **************************************)
None == <<>>
Some(x) == <<x>>

(***************************** keys and hashing ****************************)
\* blake256 of the keys of the model, as nibbles: a fixed injective table.
\* Paths have one fixed length (64 nibbles in the program, 4 here).  a and b
\* part at their last nibble; c and d part from them, and from each other,
\* after the first.
KeyPaths ==
    [a |-> <<1, 2, 3, 4>>,
     b |-> <<1, 2, 3, 9>>,
     c |-> <<1, 5, 0, 15>>,
     d |-> <<1, 7, 0, 15>>]

Keys == DOMAIN KeyPaths

\* Two values tell a value that was replaced from one that was kept.
Values == {1, 2}

blake256(key) == KeyPaths[key]

\* The digest of a byte string.
blake(bytes) == [hash |-> bytes]

\* The serialization of the empty byte string, and its digest.
NULL_RLP == <<>>
BLAKE_NULL_RLP == blake(NULL_RLP)

(***************************** NibbleSlice *********************************)
Nibbles == 0 .. 15

\* at(i) is 0-based
at(p, i) == p[i + 1]
mid(p, n) == SubSeq(p, n + 1, Len(p))
Min(a, b) == IF a < b THEN a ELSE b

common_prefix(p, q) ==
    LET n == Min(Len(p), Len(q))
        differ == {i \in 1 .. n : p[i] # q[i]}
    IN  IF differ = {} THEN n
        ELSE (CHOOSE i \in differ : \A j \in differ : i <= j) - 1

starts_with(p, q) == common_prefix(p, q) = Len(q)

(***************************** Node and its codec **************************)
Leaf(partial, value) == [kind |-> "Leaf", partial |-> partial, value |-> value, children |-> <<>>]
Branch(partial, children) == [kind |-> "Branch", partial |-> partial, value |-> 0, children |-> children]

empty_children == [i \in Nibbles |-> None]

encoded(node) ==
    IF node.kind = "Leaf"
    THEN <<node.partial, node.value>>
    ELSE <<node.partial>> \o [i \in 1 .. 16 |-> node.children[i - 1]]

\* The node with its prefix cut to its first n nibbles.
encoded_until(node, n) ==
    encoded([node EXCEPT !.partial = SubSeq(node.partial, 1, n)])

decoded(bytes) ==
    CASE Len(bytes) = 2 -> Some(Leaf(bytes[1], bytes[2]))
      [] Len(bytes) = 17 -> Some(Branch(bytes[1], [i \in Nibbles |-> bytes[i + 2]]))
      [] OTHER -> None

\* Node::mid: the node with the first n nibbles of its prefix dropped.
node_mid(node, n) == [node EXCEPT !.partial = mid(node.partial, n)]

(***************************** HashDB **************************************)
\* The store answers for the digest of the empty string without holding it.
db_get(d, h) ==
    IF h = BLAKE_NULL_RLP THEN Some(NULL_RLP)
    ELSE IF h \in DOMAIN d THEN Some(d[h]) ELSE None

db_contains(d, h) == h = BLAKE_NULL_RLP \/ h \in DOMAIN d

db_insert(d, bytes) ==
    IF bytes = NULL_RLP \/ blake(bytes) \in DOMAIN d THEN d
    ELSE d @@ (blake(bytes) :> bytes)

(***************************** results *************************************)
NoError == "none"
Ok(v) == [ok |-> TRUE, val |-> v, err |-> NoError, hash |-> None]
Err(e, h) == [ok |-> FALSE, val |-> None, err |-> e, hash |-> Some(h)]
IncompleteDatabase(h) == Err("IncompleteDatabase", h)
InvalidStateRoot(h) == Err("InvalidStateRoot", h)

(***************************** node cache **********************************)
CacheCapacity == 3000

\* LruCache::insert.  The order of use is not kept: a full cache drops some
\* entry (CacheBelowCapacity shows the cache is never full within MaxOps).
cache_insert(c, h, bytes) ==
    IF h \in DOMAIN c THEN [c EXCEPT ![h] = bytes]
    ELSE IF Cardinality(DOMAIN c) < CacheCapacity THEN c @@ (h :> bytes)
    ELSE LET out == CHOOSE k \in DOMAIN c : TRUE
         IN  [k \in (DOMAIN c \ {out}) \cup {h} |-> IF k = h THEN bytes ELSE c[k]]

(***************************************************************************)
(* The mutable part of a handle that the recursive walks thread through:   *)
(* m = [db, cache, old_val].                                               *)
(***************************************************************************)
Mem(d, c, o) == [db |-> d, cache |-> c, old_val |-> o]

\* A walk's outcome: the memory it leaves and its Result.
Out(m, res) == [m |-> m, res |-> res]

\* insert_aux's read of the current node: the cache first, the store on a miss.
read_node(m, hash) ==
    IF hash \in DOMAIN m.cache
    THEN Out(m, Ok(m.cache[hash]))
    ELSE LET got == db_get(m.db, hash)
         IN  IF got = None THEN Out(m, IncompleteDatabase(hash))
             ELSE Out([m EXCEPT !.cache = cache_insert(m.cache, hash, got[1])], Ok(got[1]))

\* Mutant: the node goes to the cache and not to the store.
put_cached_cache_only(m, node_rlp) ==
    LET hash == blake(node_rlp)
    IN  Out([m EXCEPT !.cache = cache_insert(m.cache, hash, node_rlp)], Ok(hash))

\* self.db.insert(&node_rlp) followed by self.cache.insert(hash, node_rlp)
put_cached(m, node_rlp) ==
    LET hash == blake(node_rlp)
    IN  Out([m EXCEPT !.db = db_insert(m.db, node_rlp),
                      !.cache = cache_insert(m.cache, hash, node_rlp)],
            Ok(hash))

\* self.db.insert(&node_rlp) alone
put_db(m, node_rlp) ==
    Out([m EXCEPT !.db = db_insert(m.db, node_rlp)], Ok(blake(node_rlp)))

(***************************** insert_aux **********************************)
RECURSIVE insert_aux(_, _, _, _)

\* A fresh leaf for the rest of the path: encode, store, cache.
insert_aux_new_leaf(m, path, insert_value) ==
    put_cached(m, encoded(Leaf(path, insert_value)))

\* Mutant: the leaf is written again with the value it held.
insert_aux_renew_keeps_value(m, path, insert_value, value) ==
    LET put == insert_aux_new_leaf(m, path, value)
    IN  Out([put.m EXCEPT !.old_val = Some(value)], put.res)

\* Mutant: old_val is not set.
insert_aux_renew_no_old_val(m, path, insert_value, value) ==
    insert_aux_new_leaf(m, path, insert_value)

\* "Renew the Leaf": the value the leaf held is handed back through old_val.
insert_aux_renew(m, path, insert_value, value) ==
    LET put == insert_aux_new_leaf(m, path, insert_value)
    IN  Out([put.m EXCEPT !.old_val = Some(value)], put.res)

\* Mutant: encoded in place of encoded_until, the prefix is not cut.
insert_aux_split_rlp_whole_prefix(partial, new_child, common) ==
    encoded(Branch(partial, new_child))

\* The branch that replaces a split node: its prefix is the first `common`
\* nibbles of `partial`.
insert_aux_split_rlp(partial, new_child, common) ==
    encoded_until(Branch(partial, new_child), common)

\* "Make branch node and insert Leaves"
insert_aux_split_leaf(m, path, insert_value, partial, value) ==
    LET common == common_prefix(partial, path)
        new_partial == mid(partial, common)
        new_path == mid(path, common)
        r1 == insert_aux(m, mid(new_partial, 1), value, empty_children[at(new_partial, 0)])
    IN  IF ~r1.res.ok THEN r1
        ELSE
        LET child1 == [empty_children EXCEPT ![at(new_partial, 0)] = Some(r1.res.val)]
            r2 == insert_aux(r1.m, mid(new_path, 1), insert_value, child1[at(new_path, 0)])
        IN  IF ~r2.res.ok THEN r2
            ELSE
            LET child2 == [child1 EXCEPT ![at(new_path, 0)] = Some(r2.res.val)]
            IN  put_cached(r2.m, insert_aux_split_rlp(partial, child2, common))

insert_aux_leaf(m, path, insert_value, partial, value) ==
    IF partial = path
    THEN insert_aux_renew(m, path, insert_value, value)
    ELSE insert_aux_split_leaf(m, path, insert_value, partial, value)

\* Mutant: the demoted branch keeps the nibble that now selects it.
insert_aux_demote_keeps_nibble(m, path, insert_value, partial, children, common) ==
    LET new_partial == mid(partial, common)
        new_path == mid(path, common)
        o_branch == Branch(new_partial, children)
        b == put_cached(m, encoded(o_branch))
        child1 == [empty_children EXCEPT ![at(new_partial, 0)] = Some(b.res.val)]
        r == insert_aux(b.m, mid(new_path, 1), insert_value, child1[at(new_path, 0)])
    IN  IF ~r.res.ok THEN r
        ELSE
        LET child2 == [child1 EXCEPT ![at(new_path, 0)] = Some(r.res.val)]
        IN  put_cached(r.m, insert_aux_split_rlp(partial, child2, common))

\* "Make new branch node and insert leaf and branch with new path": the
\* branch found is demoted under the nibble that follows the shared head.
insert_aux_demote(m, path, insert_value, partial, children, common) ==
    LET new_partial == mid(partial, common)
        new_path == mid(path, common)
        o_branch == Branch(mid(new_partial, 1), children)
        b == put_cached(m, encoded(o_branch))
        child1 == [empty_children EXCEPT ![at(new_partial, 0)] = Some(b.res.val)]
        r == insert_aux(b.m, mid(new_path, 1), insert_value, child1[at(new_path, 0)])
    IN  IF ~r.res.ok THEN r
        ELSE
        LET child2 == [child1 EXCEPT ![at(new_path, 0)] = Some(r.res.val)]
        IN  put_cached(r.m, insert_aux_split_rlp(partial, child2, common))

\* Mutant: the branch is written back with the slot walked into alone.
insert_aux_descend_alone(m, path, insert_value, partial, children, common) ==
    LET new_path == mid(path, common)
        r == insert_aux(m, mid(new_path, 1), insert_value, children[at(new_path, 0)])
    IN  IF ~r.res.ok THEN r
        ELSE
        LET children1 == [empty_children EXCEPT ![at(new_path, 0)] = Some(r.res.val)]
        IN  put_cached(r.m, encoded(Branch(partial, children1)))

\* "Insert leaf into the branch node"
insert_aux_descend(m, path, insert_value, partial, children, common) ==
    LET new_path == mid(path, common)
        r == insert_aux(m, mid(new_path, 1), insert_value, children[at(new_path, 0)])
    IN  IF ~r.res.ok THEN r
        ELSE
        LET children1 == [children EXCEPT ![at(new_path, 0)] = Some(r.res.val)]
        IN  put_cached(r.m, encoded(Branch(partial, children1)))

insert_aux_branch(m, path, insert_value, partial, children) ==
    LET common == common_prefix(partial, path)
    IN  IF common < Len(partial)
        THEN insert_aux_demote(m, path, insert_value, partial, children, common)
        ELSE insert_aux_descend(m, path, insert_value, partial, children, common)

insert_aux(m, path, insert_value, cur_node_hash) ==
    IF cur_node_hash = None
    THEN insert_aux_new_leaf(m, path, insert_value)
    ELSE
    LET hash == cur_node_hash[1]
        rd == read_node(m, hash)
    IN  IF ~rd.res.ok THEN rd
        ELSE
        LET node == decoded(rd.res.val)
        IN  CASE node = None ->
                    insert_aux_new_leaf(rd.m, path, insert_value)
              [] node # None /\ node[1].kind = "Leaf" ->
                    insert_aux_leaf(rd.m, path, insert_value, node[1].partial, node[1].value)
              [] node # None /\ node[1].kind = "Branch" ->
                    insert_aux_branch(rd.m, path, insert_value, node[1].partial, node[1].children)

(***************************** remove_aux **********************************)
RECURSIVE remove_aux(_, _, _)

\* Mutant: the occupied slots are counted, not the empty ones.
child_count_occupied(children) == Cardinality({i \in Nibbles : children[i] # None})

\* The number the "fix the node" match is made on.
child_count(children) == Cardinality({i \in Nibbles : children[i] = None})

\* children.iter().position(Option::is_some)
first_occupied(children) ==
    CHOOSE i \in Nibbles : children[i] # None /\ \A j \in Nibbles : j < i => children[j] = None

\* Mutant: the nibble that selected the child is left out.
collapse_partial_no_index(partial, index, child_partial) ==
    partial \o child_partial

\* The prefix of the node that replaces a one-child branch.
collapse_partial(partial, index, child_partial) ==
    partial \o <<index>> \o child_partial

\* Mutant: the one child left is handed up as it is, its prefix not extended.
remove_aux_collapse_keeps_child(m, hash, partial, children) ==
    LET index == first_occupied(children)
        new_leaf_hash == children[index][1]
        new_leaf_data == db_get(m.db, new_leaf_hash)
    IN  IF new_leaf_data = None THEN Out(m, IncompleteDatabase(hash))
        ELSE Out(m, Ok(Some(new_leaf_hash)))

\* "Transform the branch into Leaf": the one child left takes the branch's place.
remove_aux_collapse(m, hash, partial, children) ==
    LET index == first_occupied(children)
        new_leaf_hash == children[index][1]
        new_leaf_data == db_get(m.db, new_leaf_hash)
    IN  IF new_leaf_data = None THEN Out(m, IncompleteDatabase(hash))
        ELSE
        LET new_leaf_node == decoded(new_leaf_data[1])
        IN  CASE new_leaf_node = None ->
                    Out(m, IncompleteDatabase(hash))
              [] new_leaf_node # None /\ new_leaf_node[1].kind = "Leaf" ->
                    LET put == put_db(m, encoded(Leaf(
                                   collapse_partial(partial, index, new_leaf_node[1].partial),
                                   new_leaf_node[1].value)))
                    IN  Out(put.m, Ok(Some(put.res.val)))
              [] new_leaf_node # None /\ new_leaf_node[1].kind = "Branch" ->
                    LET put == put_db(m, encoded(Branch(
                                   collapse_partial(partial, index, new_leaf_node[1].partial),
                                   new_leaf_node[1].children)))
                    IN  Out(put.m, Ok(Some(put.res.val)))

\* The branch written back with its children as they now are.
remove_aux_rewrite(m, partial, children) ==
    LET put == put_db(m, encoded(Branch(partial, children)))
    IN  Out(put.m, Ok(Some(put.res.val)))

\* Mutant: a branch left with one child is written back as it is.
remove_aux_fix_no_collapse(m, hash, partial, children) ==
    IF child_count(children) = 16
    THEN Out(m, Ok(None))
    ELSE remove_aux_rewrite(m, partial, children)

\* "Fix the node": the slot walked into is empty now.
remove_aux_fix(m, hash, partial, children) ==
    LET count == child_count(children)
    IN  CASE count = 16 -> Out(m, Ok(None))
          [] count = 15 -> remove_aux_collapse(m, hash, partial, children)
          [] OTHER -> remove_aux_rewrite(m, partial, children)

remove_aux_branch(m, path, hash, partial, children) ==
    IF starts_with(path, partial)
    THEN LET new_path == mid(path, Len(partial))
             r == remove_aux(m, mid(new_path, 1), children[at(new_path, 0)])
         IN  IF ~r.res.ok THEN r
             ELSE
             LET children1 == [children EXCEPT ![at(new_path, 0)] = r.res.val]
             IN  IF children1[at(new_path, 0)] = None
                 THEN remove_aux_fix(r.m, hash, partial, children1)
                 ELSE remove_aux_rewrite(r.m, partial, children1)
    ELSE Out(m, Ok(Some(hash)))

\* Mutant: old_val is not set.
remove_aux_leaf_no_old_val(m, path, hash, partial, value) ==
    IF path = partial
    THEN Out(m, Ok(None))
    ELSE Out(m, Ok(Some(hash)))

\* Mutant: a leaf with another path is dropped too.
remove_aux_leaf_any_path(m, path, hash, partial, value) ==
    IF path = partial
    THEN Out([m EXCEPT !.old_val = Some(value)], Ok(None))
    ELSE Out(m, Ok(None))

\* Mutant: the entry of the leaf removed is dropped from the store.
remove_aux_leaf_drops_entry(m, path, hash, partial, value) ==
    IF path = partial
    THEN Out([m EXCEPT !.old_val = Some(value),
                       !.db = [x \in DOMAIN m.db \ {hash} |-> m.db[x]]], Ok(None))
    ELSE Out(m, Ok(Some(hash)))

remove_aux_leaf(m, path, hash, partial, value) ==
    IF path = partial
    THEN Out([m EXCEPT !.old_val = Some(value)], Ok(None))
    ELSE Out(m, Ok(Some(hash)))

remove_aux(m, path, cur_node_hash) ==
    IF cur_node_hash = None
    THEN Out(m, Ok(cur_node_hash))
    ELSE
    LET hash == cur_node_hash[1]
        node_rlp == db_get(m.db, hash)
    IN  IF node_rlp = None THEN Out(m, IncompleteDatabase(hash))
        ELSE
        LET node == decoded(node_rlp[1])
        IN  CASE node = None ->
                    Out(m, Ok(cur_node_hash))
              [] node # None /\ node[1].kind = "Leaf" ->
                    remove_aux_leaf(m, path, hash, node[1].partial, node[1].value)
              [] node # None /\ node[1].kind = "Branch" ->
                    remove_aux_branch(m, path, hash, node[1].partial, node[1].children)

(***************************** insert_raw_aux ******************************)
RECURSIVE insert_raw_aux(_, _, _)

\* The node is stored as it is; the cache is not written.
insert_raw_aux_put(m, node) == put_db(m, encoded(node))

\* "Renew the Leaf": old_val takes the bytes of the node that was there.
insert_raw_aux_renew(m, node, existing_node_rlp) ==
    LET put == insert_raw_aux_put(m, node)
    IN  Out([put.m EXCEPT !.old_val = Some(existing_node_rlp)], put.res)

\* "Make branch node and insert Leaves": the leaf found goes down through
\* insert_aux, the node given through insert_raw_aux.
insert_raw_aux_split_node(r1, node, partial, common) ==
    IF ~r1.res.ok THEN r1
    ELSE
    LET new_partial == mid(partial, common)
        new_path == mid(node.partial, common)
        child1 == [empty_children EXCEPT ![at(new_partial, 0)] = Some(r1.res.val)]
        r2 == insert_raw_aux(r1.m, node_mid(node, common + 1), child1[at(new_path, 0)])
    IN  IF ~r2.res.ok THEN r2
        ELSE
        LET child2 == [child1 EXCEPT ![at(new_path, 0)] = Some(r2.res.val)]
        IN  put_db(r2.m, encoded_until(Branch(partial, child2), common))

insert_raw_aux_split_leaf(m, node, partial, value) ==
    LET common == common_prefix(partial, node.partial)
        new_partial == mid(partial, common)
    IN  \* the leaf found is put back first; its outcome r1 is computed once
        CHOOSE out \in
            {insert_raw_aux_split_node(r1, node, partial, common) :
                r1 \in {insert_aux(m, mid(new_partial, 1), value,
                                   empty_children[at(new_partial, 0)])}} : TRUE

\* Mutant: encoded in place of encoded_until, the new root keeps the whole
\* prefix of the branch it demotes.
insert_raw_aux_demote_whole_prefix(m, node, partial, children, common) ==
    LET path == node.partial
        new_partial == mid(partial, common)
        new_path == mid(path, common)
        o_branch == Branch(mid(new_partial, 1), children)
        b == put_db(m, encoded(o_branch))
        child1 == [empty_children EXCEPT ![at(new_partial, 0)] = Some(b.res.val)]
        r == insert_raw_aux(b.m, node_mid(node, common + 1), child1[at(new_path, 0)])
    IN  IF ~r.res.ok THEN r
        ELSE
        LET child2 == [child1 EXCEPT ![at(new_path, 0)] = Some(r.res.val)]
        IN  put_db(r.m, encoded(Branch(partial, child2)))

insert_raw_aux_demote(m, node, partial, children, common) ==
    LET path == node.partial
        new_partial == mid(partial, common)
        new_path == mid(path, common)
        o_branch == Branch(mid(new_partial, 1), children)
        b == put_db(m, encoded(o_branch))
        child1 == [empty_children EXCEPT ![at(new_partial, 0)] = Some(b.res.val)]
        r == insert_raw_aux(b.m, node_mid(node, common + 1), child1[at(new_path, 0)])
    IN  IF ~r.res.ok THEN r
        ELSE
        LET child2 == [child1 EXCEPT ![at(new_path, 0)] = Some(r.res.val)]
        IN  put_db(r.m, encoded_until(Branch(partial, child2), common))

insert_raw_aux_descend(m, node, partial, children, common) ==
    LET path == node.partial
        new_path == mid(path, common)
        r == insert_raw_aux(m, node_mid(node, common + 1), children[at(new_path, 0)])
    IN  IF ~r.res.ok THEN r
        ELSE
        LET children1 == [children EXCEPT ![at(new_path, 0)] = Some(r.res.val)]
        IN  put_db(r.m, encoded(Branch(partial, children1)))

insert_raw_aux(m, node, cur_node_hash) ==
    IF cur_node_hash = None
    THEN insert_raw_aux_put(m, node)
    ELSE
    LET path == node.partial
        hash == cur_node_hash[1]
        existing_node_rlp == db_get(m.db, hash)
    IN  IF existing_node_rlp = None THEN Out(m, IncompleteDatabase(hash))
        ELSE
        LET existing == decoded(existing_node_rlp[1])
        IN  CASE existing = None ->
                    insert_raw_aux_put(m, node)
              [] existing # None /\ existing[1].kind = "Leaf" ->
                    IF existing[1].partial = path
                    THEN insert_raw_aux_renew(m, node, existing_node_rlp[1])
                    ELSE insert_raw_aux_split_leaf(m, node, existing[1].partial, existing[1].value)
              [] existing # None /\ existing[1].kind = "Branch" ->
                    LET common == common_prefix(existing[1].partial, path)
                    IN  IF common < Len(existing[1].partial)
                        THEN insert_raw_aux_demote(m, node, existing[1].partial,
                                                   existing[1].children, common)
                        ELSE insert_raw_aux_descend(m, node, existing[1].partial,
                                                    existing[1].children, common)

(***************************** TrieDB (the read trie) **********************)
RECURSIVE get_aux(_, _, _)
get_aux(d, path, cur_node_hash) ==
    IF cur_node_hash = None THEN Ok(None)
    ELSE
    LET hash == cur_node_hash[1]
        node_rlp == db_get(d, hash)
    IN  IF node_rlp = None THEN IncompleteDatabase(hash)
        ELSE
        LET node == decoded(node_rlp[1])
        IN  CASE node = None -> Ok(None)
              [] node # None /\ node[1].kind = "Leaf" ->
                    IF node[1].partial = path THEN Ok(Some(node[1].value)) ELSE Ok(None)
              [] node # None /\ node[1].kind = "Branch" ->
                    IF starts_with(path, node[1].partial) /\ Len(path) > Len(node[1].partial)
                    THEN get_aux(d, mid(path, Len(node[1].partial) + 1),
                                 node[1].children[at(path, Len(node[1].partial))])
                    ELSE Ok(None)

\* TrieDB::try_new followed by TrieDB::get
TrieDB_get(d, r, key) ==
    IF ~db_contains(d, r) THEN InvalidStateRoot(r)
    ELSE get_aux(d, blake256(key), Some(r))

(***************************** the public operations ***********************)
\* A handle's view of the world: h = [db, root, cache].  Every operation
\* gives the world it leaves and the value it returns.
World(d, r, c) == [db |-> d, root |-> r, cache |-> c]
Done(h, ret) == [h |-> h, ret |-> ret]

\* TrieDBMut::new
new(d, r) == World(d, BLAKE_NULL_RLP, <<>>)

\* Mutant: the root is not looked up.
from_existing_unchecked(d, r) == Done(World(d, r, <<>>), Ok(None))

\* TrieDBMut::from_existing
from_existing(d, r) ==
    IF ~db_contains(d, r)
    THEN Done(World(d, r, <<>>), InvalidStateRoot(r))
    ELSE Done(World(d, r, <<>>), Ok(None))

\* The digests from_existing passes to db.contains: its first statement asks
\* for the root, whatever the root is.
from_existing_asks(d, r) == {r}

\* TrieDB::is_complete: every digest met on the way down from the root is
\* answered by the store.
RECURSIVE is_complete_aux(_, _)
is_complete_aux(d, cur_node_hash) ==
    IF cur_node_hash = None THEN TRUE
    ELSE
    LET node_rlp == db_get(d, cur_node_hash[1])
    IN  IF node_rlp = None THEN FALSE
        ELSE
        LET node == decoded(node_rlp[1])
        IN  IF node = None \/ node[1].kind = "Leaf" THEN TRUE
            ELSE \A i \in Nibbles : is_complete_aux(d, node[1].children[i])

\* Trie::is_complete
is_complete(h) == db_contains(h.db, h.root) /\ is_complete_aux(h.db, Some(h.root))

\* Trie::root, Trie::is_empty, Trie::get
is_empty(h) == h.root = BLAKE_NULL_RLP
get(h, key) == TrieDB_get(h.db, h.root, key)

\* Mutant: a walk that failed empties the root slot.
commit_always(h, walk, new_root) ==
    IF walk.res.ok
    THEN Done(World(walk.m.db, new_root, walk.m.cache), Ok(walk.m.old_val))
    ELSE Done(World(walk.m.db, BLAKE_NULL_RLP, walk.m.cache), walk.res)

\* `*self.root = walk?; Ok(old_val)`: the root slot is written with the
\* digest of a walk that succeeded, and left alone by one that failed.
commit(h, walk, new_root) ==
    IF walk.res.ok
    THEN Done(World(walk.m.db, new_root, walk.m.cache), Ok(walk.m.old_val))
    ELSE Done(World(walk.m.db, h.root, walk.m.cache), walk.res)

\* TrieMut::insert
insert(h, key, value) ==
    LET path == blake256(key)
        cur_hash == h.root
        walk == insert_aux(Mem(h.db, h.cache, None), path, value, Some(cur_hash))
    IN  commit(h, walk, walk.res.val)

\* TrieMut::remove
remove(h, key) ==
    LET path == blake256(key)
        cur_hash == h.root
        walk == remove_aux(Mem(h.db, h.cache, None), path, Some(cur_hash))
    IN  commit(h, walk, IF walk.res.val = None THEN BLAKE_NULL_RLP ELSE walk.res.val[1])

\* TrieDBMut::insert_raw
insert_raw(h, node) ==
    LET cur_hash == h.root
        walk == insert_raw_aux(Mem(h.db, h.cache, None), node, Some(cur_hash))
    IN  commit(h, walk, walk.res.val)

(***************************** the state machine ***************************)
Call(op, key, val, ret) == [op |-> op, key |-> key, val |-> val, ret |-> ret]

NoKey == "-"
NoContent == [k \in Keys |-> None]

\* The state after TrieDBMut::new on an empty store.
Init ==
    /\ db = <<>>
    /\ root = BLAKE_NULL_RLP
    /\ cache = <<>>
    /\ handle = TRUE
    /\ content = NoContent
    /\ last = Call("new", NoKey, 0, Ok(None))
    /\ used = {}
    /\ evicted = {}
    /\ nops = 0
    /\ asked = {}

Here == World(db, root, cache)

Leave(done) ==
    /\ db' = done.h.db
    /\ root' = done.h.root
    /\ cache' = done.h.cache

Insert(k, v) ==
    /\ handle
    /\ nops < MaxOps
    /\ LET done == insert(Here, k, v)
       IN  /\ Leave(done)
           /\ content' = IF done.ret.ok THEN [content EXCEPT ![k] = Some(v)] ELSE content
           /\ last' = Call("insert", k, v, done.ret)
    /\ used' = used \cup {"insert"}
    /\ nops' = nops + 1
    /\ asked' = {}
    /\ UNCHANGED <<handle, evicted>>

Remove(k) ==
    /\ handle
    /\ nops < MaxOps
    /\ LET done == remove(Here, k)
       IN  /\ Leave(done)
           /\ content' = IF done.ret.ok THEN [content EXCEPT ![k] = None] ELSE content
           /\ last' = Call("remove", k, 0, done.ret)
    /\ used' = used \cup {"remove"}
    /\ nops' = nops + 1
    /\ asked' = {}
    /\ UNCHANGED <<handle, evicted>>

Next ==
    \/ \E k \in Keys, v \in Values : Insert(k, v)
    \/ \E k \in Keys : Remove(k)

Spec == Init /\ [][Next]_vars

(***************************************************************************)
(* The second machine: a handle taken with from_existing() on a store      *)
(* that an earlier handle filled and whose owner may have dropped entries  *)
(* of it since.  Walks on such a handle can meet a digest the store does   *)
(* not hold.                                                               *)
(***************************************************************************)
\* A digest that is the digest of no node (H256::zero() in the tests).
H256_zero == blake(<<0>>)

\* The world an earlier handle leaves: new() on an empty store, then the
\* pairs of `cont` inserted in the order of `keys`.
RECURSIVE WorldAfter(_, _, _)
WorldAfter(h, cont, keys) ==
    IF keys = <<>> THEN h
    ELSE IF cont[Head(keys)] = None THEN WorldAfter(h, cont, Tail(keys))
    ELSE \* the world after this insert is computed once, then handed on
         CHOOSE w \in {WorldAfter(x, cont, Tail(keys)) :
                           x \in {insert(h, Head(keys), cont[Head(keys)][1]).h}} : TRUE

KeyOrder == <<"a", "b", "c", "d">>
FreshWorld(cont) == WorldAfter(new(<<>>, BLAKE_NULL_RLP), cont, KeyOrder)

InitExisting ==
    \E cont \in [Keys -> {None, Some(1)}] :
        /\ LET w == FreshWorld(cont)
           IN  db = w.db /\ root = w.root
        /\ cache = <<>>
        /\ handle = FALSE
        /\ content = cont
        /\ last = Call("drop", NoKey, 0, Ok(None))
        /\ used = {}
        /\ evicted = {}
        /\ nops = 0
        /\ asked = {}

\* HashDB::remove by the owner of the store, while no handle borrows it.
Evict(h) ==
    /\ ~handle
    /\ Cardinality(evicted) < MaxEvict
    /\ h \in DOMAIN db
    /\ db' = [x \in DOMAIN db \ {h} |-> db[x]]
    /\ evicted' = evicted \cup {h}
    /\ last' = Call("evict", NoKey, 0, Ok(None))
    /\ used' = used \cup {"evict"}
    /\ asked' = {}
    /\ UNCHANGED <<root, cache, handle, content, nops>>

\* The owner of the root slot writes it, while no handle borrows it.
SetRoot(r) ==
    /\ ~handle
    /\ "set_root" \notin used
    /\ r # root
    /\ root' = r
    /\ last' = Call("set_root", NoKey, 0, Ok(None))
    /\ used' = used \cup {"set_root"}
    /\ asked' = {}
    /\ UNCHANGED <<db, cache, handle, content, evicted, nops>>

FromExisting ==
    /\ ~handle
    /\ LET done == from_existing(db, root)
       IN  /\ Leave(done)
           /\ handle' = done.ret.ok
           /\ last' = Call("from_existing", NoKey, 0, done.ret)
    /\ used' = used \cup {"from_existing"}
    /\ asked' = from_existing_asks(db, root)
    /\ UNCHANGED <<content, evicted, nops>>

\* insert_raw of a leaf that holds the whole path of a key.
InsertRaw(k, v) ==
    /\ handle
    /\ nops < MaxOps
    /\ LET done == insert_raw(Here, Leaf(blake256(k), v))
       IN  /\ Leave(done)
           /\ content' = IF done.ret.ok THEN [content EXCEPT ![k] = Some(v)] ELSE content
           /\ last' = Call("insert_raw", k, v, done.ret)
    /\ used' = used \cup {"insert_raw"}
    /\ nops' = nops + 1
    /\ asked' = {}
    /\ UNCHANGED <<handle, evicted>>

NextExisting ==
    \/ \E h \in DOMAIN db : Evict(h)
    \/ \E r \in {H256_zero, BLAKE_NULL_RLP} : SetRoot(r)
    \/ FromExisting
    \/ nops < MaxExistingOps /\ \E k \in Keys, v \in Values : Insert(k, v)
    \/ nops < MaxExistingOps /\ \E k \in Keys : Remove(k)
    \/ nops < MaxExistingOps /\ \E k \in Keys, v \in Values : InsertRaw(k, v)

SpecExisting == InitExisting /\ [][NextExisting]_vars

(***************************************************************************)
(* The third machine: a handle that new() gave, on which insert_raw is     *)
(* called beside insert and remove.                                        *)
(***************************************************************************)
NextRaw ==
    \/ nops < MaxRawOps /\ \E k \in Keys, v \in Values : Insert(k, v)
    \/ nops < MaxRawOps /\ \E k \in Keys : Remove(k)
    \/ nops < MaxRawOps /\ \E k \in Keys, v \in Values : InsertRaw(k, v)

SpecRaw == Init /\ [][NextRaw]_vars

(***************************** reference root (triehash) *******************)
\* The reference Merkle root of a set of pairs, built from the set alone:
\* a single item is a leaf; several items make a branch on their shared
\* head, one child for each nibble that follows it.
Present(cont) == {k \in Keys : cont[k] # None}
Items(cont) == {<<blake256(k), cont[k][1]>> : k \in Present(cont)}

shared_prefix(items) ==
    LET one == CHOOSE x \in items : TRUE
    IN  CHOOSE n \in 0 .. Len(one[1]) :
            /\ \A y \in items : common_prefix(one[1], y[1]) >= n
            /\ \E y \in items : common_prefix(one[1], y[1]) = n

RECURSIVE trie_node(_)
trie_node(items) ==
    LET one == CHOOSE x \in items : TRUE
    IN  IF items = {one}
        THEN encoded(Leaf(one[1], one[2]))
        ELSE
        LET c == shared_prefix(items)
            below(i) == {<<mid(x[1], c + 1), x[2]>> : x \in {y \in items : at(y[1], c) = i}}
        IN  encoded(Branch(SubSeq(one[1], 1, c),
                           [i \in Nibbles |->
                               IF below(i) = {} THEN None ELSE Some(blake(trie_node(below(i))))]))

trie_root(cont) ==
    IF Present(cont) = {} THEN BLAKE_NULL_RLP ELSE blake(trie_node(Items(cont)))

(***************************** helpers of the claims ***********************)
HereNext == World(db', root', cache')

OnlyInserts == used \subseteq {"insert"}
InsertsAndRemoves == used \subseteq {"insert", "remove"}

\* The node a digest stands for, when the store holds it.
NodeAt(h) == IF h \in DOMAIN db THEN decoded(db[h]) ELSE None
IsBranch(h) == NodeAt(h) # None /\ NodeAt(h)[1].kind = "Branch"
IsLeaf(h) == NodeAt(h) # None /\ NodeAt(h)[1].kind = "Leaf"

\* The root of a trie made with new() on an empty store by inserting the
\* pairs of `cont` in key order.
FreshRoot(cont) == FreshWorld(cont).root

\* The occupied child slots of a branch.
occupied(children) == {i \in Nibbles : children[i] # None}

\* The digests met on the way down from digest h in store d, h included.
RECURSIVE Reachable(_, _)
Reachable(d, h) ==
    IF h \notin DOMAIN d THEN {h}
    ELSE
    LET node == decoded(d[h])
    IN  IF node = None \/ node[1].kind = "Leaf" THEN {h}
        ELSE {h} \cup UNION {Reachable(d, node[1].children[i][1]) :
                                 i \in occupied(node[1].children)}

\* The digests of the nodes of the trie: none when the root is EMPTY_ROOT.
RootDigests == IF root = BLAKE_NULL_RLP THEN {} ELSE Reachable(db, root)

\* The leaves below digest h, each with the nibbles walked from the top:
\* the prefixes of the nodes passed and the nibbles that selected a child.
RECURSIVE LeafPaths(_, _, _)
LeafPaths(d, h, walked) ==
    IF h \notin DOMAIN d THEN {}
    ELSE
    LET node == decoded(d[h])
    IN  IF node = None THEN {}
        ELSE IF node[1].kind = "Leaf" THEN {<<walked \o node[1].partial, node[1].value>>}
        ELSE UNION {LeafPaths(d, node[1].children[i][1], walked \o node[1].partial \o <<i>>) :
                        i \in occupied(node[1].children)}

(***************************** claims **************************************)
\* The cache never reaches its capacity in the runs checked: cache_insert
\* never has to drop an entry.
CacheBelowCapacity == Cardinality(DOMAIN cache) < CacheCapacity

\* C1: whatever the order in which the pairs of a set with unique keys are
\* inserted into a trie made with new(), the root is the reference Merkle
\* root computed from the set of pairs alone.
C1_InsertOrderGivesReferenceRoot ==
    OnlyInserts => root = trie_root(content)

\* C1 witness: a, b and c inserted, b last, so that the order of insertion
\* differs from the order of the keys and b went in under two branches.
C1_Witness ==
    /\ OnlyInserts
    /\ Present(content) = {"a", "b", "c"}
    /\ last.op = "insert" /\ last.key = "b"
    /\ root = trie_root(content)
    /\ IsBranch(root)

\* C2: after any sequence of insert and remove calls on a trie made with
\* new(), the root is the root of a fresh trie into which the pairs now
\* present were inserted in key order: equal sets of pairs, equal roots.
C2_SameSetSameRoot ==
    InsertsAndRemoves => root = FreshRoot(content)

\* C2 witness: a and b are present after c was inserted and removed again.
C2_Witness ==
    /\ "remove" \in used
    /\ last.op = "remove" /\ last.key = "c" /\ last.ret.val # None
    /\ Present(content) = {"a", "b"}
    /\ root = FreshRoot(content)

\* C3: right after a successful insert(k, v), get(k) returns v.
C3_GetAfterInsert ==
    (last.op = "insert" /\ last.ret.ok) => get(Here, last.key) = Ok(Some(last.val))

\* C3 witness: an insert that replaced the value of a key under a branch.
C3_Witness ==
    /\ last.op = "insert" /\ last.ret.ok /\ last.ret.val # None
    /\ "remove" \in used
    /\ IsBranch(root)
    /\ get(Here, last.key) = Ok(Some(last.val))

\* C4: insert(k, v2) returns some(v1) when k is mapped to v1 and none when
\* k is not present.
C4_InsertReturnsOld ==
    [][last'.op = "insert" => last'.ret = Ok(content[last'.key])]_vars

\* C4 witness: inserting c, absent, under the branch of a and b (the branch
\* is demoted under a new one) returned none.
C4_Witness ==
    /\ last.op = "insert" /\ last.key = "c" /\ last.ret = Ok(None)
    /\ Present(content) = {"a", "b", "c"}

\* C5: remove(k) on a key mapped to v returns some(v); afterwards get(k)
\* returns none and a second remove(k) returns none.
C5_RemoveReturnsOld ==
    [][(last'.op = "remove" /\ content[last'.key] # None) =>
            /\ last'.ret = Ok(content[last'.key])
            /\ get(HereNext, last'.key) = Ok(None)
            /\ remove(HereNext, last'.key).ret = Ok(None)]_vars

\* C5 witness: a present key was removed from under a branch.
C5_Witness ==
    /\ last.op = "remove" /\ last.ret.ok /\ last.ret.val # None
    /\ Present(content) # {}
    /\ get(Here, last.key) = Ok(None)

\* C6: remove(k) for a key that is not present returns none and leaves
\* the root digest as it was.
C6_RemoveAbsentIsNoOp ==
    [][(last'.op = "remove" /\ content[last'.key] = None) =>
            /\ last'.ret = Ok(None)
            /\ root' = root]_vars

\* C6 witness: a remove of a key the trie never held ended on an empty
\* child slot of the root branch.
C6_Witness ==
    /\ last.op = "remove" /\ last.key = "d" /\ last.ret = Ok(None)
    /\ Present(content) = {"a", "c"}
    /\ IsBranch(root) /\ NodeAt(root)[1].children[7] = None

\* C6, the other case: the remove ended on a leaf with another path.
C6_LeafMismatchReached ==
    /\ last.op = "remove" /\ last.key = "b" /\ last.ret = Ok(None)
    /\ Present(content) = {"a"}
    /\ IsLeaf(root)

\* C6, the other case: the remove ended on a branch whose prefix the key
\* does not start with.
C6_PrefixMismatchReached ==
    /\ last.op = "remove" /\ last.key = "c" /\ last.ret = Ok(None)
    /\ Present(content) = {"a", "b"}
    /\ IsBranch(root) /\ NodeAt(root)[1].partial = <<1, 2, 3>>

\* C7: once every key inserted has been removed again, in whatever order,
\* the root is EMPTY_ROOT and is_empty() is true.
C7_RemoveAllGivesEmptyRoot ==
    (InsertsAndRemoves /\ Present(content) = {}) =>
        (root = BLAKE_NULL_RLP /\ is_empty(Here))

\* C7 witness: the last of several keys was removed; the branch they made
\* is still in the store.
C7_Witness ==
    /\ last.op = "remove" /\ last.ret.ok /\ last.ret.val # None
    /\ Present(content) = {}
    /\ \E h \in DOMAIN db : IsBranch(h)
    /\ is_empty(Here)

\* C8 (amended): from_existing asks the store for the root digest, whatever
\* the digest is, and fails, with InvalidStateRoot carrying the root, exactly
\* when the store answers that it does not contain it; the store answers
\* that it contains EMPTY_ROOT even when it holds no entry.
C8_FromExistingAsksStore ==
    last.op = "from_existing" =>
        /\ asked = {root}
        /\ last.ret.ok <=> db_contains(db, root)
        /\ ~last.ret.ok => last.ret = InvalidStateRoot(root)
        /\ db_contains(db, root) <=> (root \in DOMAIN db \/ root = BLAKE_NULL_RLP)

\* C8 as stated: from_existing fails with InvalidStateRoot(root) exactly when
\* the store holds no entry for the root and the root is not EMPTY_ROOT, and
\* EMPTY_ROOT is accepted without a store lookup.
C8_EmptyRootNotLookedUp ==
    last.op = "from_existing" =>
        /\ ~last.ret.ok <=> (root \notin DOMAIN db /\ root # BLAKE_NULL_RLP)
        /\ ~last.ret.ok => last.ret = InvalidStateRoot(root)
        /\ root = BLAKE_NULL_RLP => root \notin asked

\* C8 witness: from_existing succeeded on EMPTY_ROOT with an empty store.
C8_Witness ==
    /\ last.op = "from_existing" /\ last.ret.ok
    /\ root = BLAKE_NULL_RLP
    /\ DOMAIN db = {}
    /\ asked = {BLAKE_NULL_RLP}

\* C8, the failing side: the root slot holds a digest the store has no entry for.
C8_FailureReached ==
    /\ last.op = "from_existing" /\ last.ret = InvalidStateRoot(root)
    /\ DOMAIN db # {}

\* C9: a call of insert, remove or insert_raw whose walk fails leaves the
\* root slot as it was, and get returns for every key what it returned
\* before the call.
Calls == {"insert", "remove", "insert_raw"}

C9_FailedCallLeavesTrie ==
    [][(last'.op \in Calls /\ nops' = nops + 1 /\ ~last'.ret.ok) =>
            /\ root' = root
            /\ \A k \in Keys : get(HereNext, k) = get(Here, k)]_vars

\* C9 witness: a remove failed half way, on a trie that still answers get
\* for some key.
C9_Witness ==
    /\ last.op = "remove" /\ ~last.ret.ok
    /\ \E k \in Keys : get(Here, k).ok /\ get(Here, k).val # None

\* C10: a call that fails with IncompleteDatabase carries a digest the
\* store holds no entry for.
C10_ErrorCarriesMissingDigest ==
    (last.op \in Calls /\ last.ret.err = "IncompleteDatabase") =>
        last.ret.hash[1] \notin DOMAIN db

\* C11: after any sequence of insert and remove calls on a trie made with
\* new(), every branch met on the way down from the root has at least two
\* occupied child slots.
C11_BranchesHaveTwoChildren ==
    InsertsAndRemoves =>
        \A h \in RootDigests :
            IsBranch(h) => Cardinality(occupied(NodeAt(h)[1].children)) >= 2

\* C11 witness: a remove took one of the two children of the inner branch
\* away; the root branch is left with two leaves.
C11_Witness ==
    /\ last.op = "remove" /\ last.key = "a" /\ last.ret = Ok(Some(1))
    /\ Present(content) = {"b", "c"}
    /\ IsBranch(root) /\ occupied(NodeAt(root)[1].children) = {2, 5}
    /\ \A h \in RootDigests \ {root} : IsLeaf(h)

\* C12: after any sequence of successful insert and remove calls on a trie
\* made with new(), the root is EMPTY_ROOT or the digest of an entry of the
\* store, every digest met on the way down from the root is the digest of
\* an entry of the store, and is_complete() is true.
C12_TrieIsComplete ==
    InsertsAndRemoves =>
        /\ root = BLAKE_NULL_RLP \/ root \in DOMAIN db
        /\ RootDigests \subseteq DOMAIN db
        /\ is_complete(Here)

\* C12 witness: a trie of three levels, with the entries of earlier roots
\* still in the store beside it.
C12_Witness ==
    /\ Present(content) = {"a", "b", "d"}
    /\ Cardinality(RootDigests) = 5
    /\ Cardinality(DOMAIN db) > 5
    /\ is_complete(Here)

\* C13: after any sequence of insert and remove calls on a trie made with
\* new(), the prefixes and selecting nibbles walked from the root to a leaf
\* make the whole hashed path of a key the trie holds, and the leaf has the
\* value that key has now.
C13_LeafPathsAreKeyPaths ==
    InsertsAndRemoves => LeafPaths(db, root, <<>>) \subseteq Items(content)

\* C13 witness: a leaf that a collapse rewrote sits under the root branch,
\* beside a leaf inserted after it.
C13_Witness ==
    /\ Present(content) = {"b", "d"}
    /\ "remove" \in used
    /\ last.op = "insert" /\ last.key = "d"
    /\ LeafPaths(db, root, <<>>) = {<<KeyPaths["b"], 1>>, <<KeyPaths["d"], 2>>}
    /\ \E h \in DOMAIN db : IsBranch(h) /\ NodeAt(h)[1].partial = <<1, 2, 3>>

\* A step that is a call of insert, remove or insert_raw.
CallStep == last'.op \in Calls /\ nops' = nops + 1

\* C14: no call of insert, remove or insert_raw drops an entry of the store
\* or changes its bytes; a read of the trie at any digest the store holds,
\* every earlier root among them, and at EMPTY_ROOT, gives for every key
\* what it gave before the call.
C14_StoredNodesStay ==
    [][CallStep =>
          /\ \A h \in DOMAIN db : h \in DOMAIN db' /\ db'[h] = db[h]
          /\ \A r \in DOMAIN db \cup {BLAKE_NULL_RLP} : \A k \in Keys :
                 TrieDB_get(db', r, k) = TrieDB_get(db, r, k)]_vars

\* C14 witness: b was removed from a trie that insert_raw and insert had
\* made; the root the trie had before still reads a and b.
C14_Witness ==
    /\ used = {"insert_raw", "insert", "remove"}
    /\ last.op = "remove" /\ last.key = "b" /\ last.ret.ok
    /\ get(Here, "b") = Ok(None)
    /\ \E r \in DOMAIN db :
           /\ r # root
           /\ TrieDB_get(db, r, "a") = Ok(Some(1))
           /\ TrieDB_get(db, r, "b") = Ok(Some(1))

\* C15: every entry a call of insert, remove or insert_raw adds to the store
\* is in the handle's cache, with the same bytes, when the call returns.
C15_StoreWritesAreCached ==
    [][CallStep =>
          \A h \in DOMAIN db' \ DOMAIN db :
              h \in DOMAIN cache' /\ cache'[h] = db'[h]]_vars

\* C15, the part that holds: every entry a call of insert adds to the store
\* is in the cache when the call returns.
C15_InsertWritesAreCached ==
    [][(CallStep /\ last'.op = "insert") =>
          \A h \in DOMAIN db' \ DOMAIN db :
              h \in DOMAIN cache' /\ cache'[h] = db'[h]]_vars

\* C17: on a trie reached by insert and remove calls from new(), insert_raw
\* of the leaf that holds the whole hashed path of k and the value v leaves
\* the root that insert(k, v) on the same trie leaves.
C17_InsertRawLikeInsert ==
    [][(CallStep /\ last'.op = "insert_raw" /\ InsertsAndRemoves) =>
          /\ last'.ret.ok
          /\ root' = insert(Here, last'.key, last'.val).h.root]_vars

\* C17 witness: insert_raw put c beside the inner branch of a and b that two
\* inserts had made: the branch was demoted under a new root.
C17_Witness ==
    /\ last.op = "insert_raw" /\ last.key = "c" /\ last.ret.ok
    /\ nops = 3 /\ used = {"insert", "insert_raw"}
    /\ Present(content) = {"a", "b", "c"}
    /\ IsBranch(root) /\ NodeAt(root)[1].partial = <<1>>

\* The children of a branch with only the slots of `keep` left occupied.
only(children, keep) == [i \in Nibbles |-> IF i \in keep THEN children[i] ELSE None]

\* What "fix the node" gives for the branch stored under digest h once the
\* slot walked into is empty and the slots of `keep` are the ones occupied.
fixed(h, keep) ==
    remove_aux_fix(Mem(db, cache, None), h, NodeAt(h)[1].partial,
                   only(NodeAt(h)[1].children, keep))

\* The node stored under the digest an outcome hands up.
node_of(out) == decoded(out.m.db[out.res.val[1]])

\* C16: when the slot remove_aux walked into is left empty, a branch B(p,
\* children) with no slot occupied becomes an empty position; with one slot
\* i occupied, holding node N, it becomes a node of N's variant with prefix
\* p ++ [i] ++ N.prefix and N's value or children; with two or more slots
\* occupied it is written back as Branch(p, children).
C16_FixTheNode ==
    \A h \in {x \in DOMAIN db : IsBranch(x)} :
        LET B == NodeAt(h)[1]
            occ == occupied(B.children)
        IN  \A keep \in (SUBSET occ) \ {occ} :
                LET out == fixed(h, keep)
                IN  CASE keep = {} ->
                            out.res = Ok(None)
                      [] Cardinality(keep) = 1 ->
                            LET i == CHOOSE x \in keep : TRUE
                                N == NodeAt(B.children[i][1])[1]
                            IN  /\ out.res.ok /\ out.res.val # None
                                /\ node_of(out) =
                                       Some([N EXCEPT !.partial = B.partial \o <<i>> \o N.partial])
                      [] OTHER ->
                            /\ out.res.ok /\ out.res.val # None
                            /\ node_of(out) = Some(Branch(B.partial, only(B.children, keep)))

\* C16 witness: the remove of c left the root branch with its inner branch
\* alone, and the inner branch took the root's place with the prefix of the
\* root, the nibble of its slot and its own prefix.
C16_Witness ==
    /\ last.op = "remove" /\ last.key = "c" /\ last.ret = Ok(Some(2))
    /\ IsBranch(root) /\ NodeAt(root)[1].partial = <<1, 2, 3>>
    /\ \E h \in DOMAIN db :
           /\ IsBranch(h) /\ NodeAt(h)[1].partial = <<1>>
           /\ occupied(NodeAt(h)[1].children) = {2, 5}
           /\ fixed(h, {2}).res = Ok(Some(root))

\* C18: on a trie reached by insert and remove calls from new(), a
\* successful insert(k, v) or remove(k) leaves get(k2) as it was for every
\* key k2 other than k.
C18_OtherKeysKeepTheirValue ==
    [][(CallStep /\ last'.op \in {"insert", "remove"} /\ last'.ret.ok) =>
          \A k2 \in Keys \ {last'.key} : get(HereNext, k2) = get(Here, k2)]_vars

\* C18 witness: the insert of d demoted the branch of a and b under a new
\* root branch; a, b and the absent c answer as before.
C18_Witness ==
    /\ last.op = "insert" /\ last.key = "d" /\ last.ret = Ok(None)
    /\ get(Here, "a") = Ok(Some(1))
    /\ get(Here, "b") = Ok(Some(2))
    /\ get(Here, "c") = Ok(None)
    /\ get(Here, "d") = Ok(Some(last.val))

\* C18, the other cases: a remove that collapsed a one-child branch, with
\* the key left still answered.
C18_CollapseReached ==
    /\ last.op = "remove" /\ last.key = "a" /\ last.ret = Ok(Some(1))
    /\ IsLeaf(root)
    /\ get(Here, "b") = Ok(Some(2))

====
